---------------------------- MODULE Spec2Model ----------------------------
(***************************************************************************)
(* Model of the pachislot setting-estimation program:                      *)
(*   src/statistics_utils.py  the statistical core (pure functions)        *)
(*   src/app.py               the Streamlit shell (session state, handlers)*)
(*                                                                         *)
(* Floating-point numbers are modelled as exact rationals in lowest terms, *)
(* records [num, den] with den > 0.  A Python call either returns a value, *)
(* Return(v), or raises, Raise(e).  Text is a sequence of one-character    *)
(* strings.  Non-ASCII literals of the source are written in ASCII:        *)
(*   symbols  U+2717 -> "x", U+25B3 -> "triangle", U+25CB -> "circle",     *)
(*            U+25CE -> "double_circle", "?" -> "?"                        *)
(*   colours  ki/aka/midori/ao -> "yellow", "red", "green", "blue"         *)
(***************************************************************************)
EXTENDS Integers, Sequences, FiniteSets, TLC

VARIABLES
    counts,            \* st.session_state.counts: colour -> count
    total_spins,       \* st.session_state.total_spins
    probabilities,     \* st.session_state.probabilities: colour -> setting -> text
    analysis_results,  \* st.session_state.analysis_results: colour -> None | snapshot
    shell,             \* outcome of the last shell handler: "ok" or the exception that ended it
    call               \* the last invocation of a core function: its arguments and outcome

vars == <<counts, total_spins, probabilities, analysis_results, shell, call>>

(***************************************************************************)
(* Bounds of the model.                                                    *)
(***************************************************************************)
MaxN == 6          \* trial counts n range over -1..MaxN
ProbDen == 6       \* candidate probabilities are a/ProbDen, a in -1..ProbDen+1
LikMaxN == 4       \* trial counts of the likelihood calls
LikDen == 4        \* probabilities of the likelihood calls are a/LikDen
MaxLen == 3        \* longest list of candidate probabilities

(***************************************************************************)
(* Python outcomes.                                                        *)
(***************************************************************************)
Return(v) == [ok |-> TRUE, val |-> v]
Raise(e) == [ok |-> FALSE, err |-> e]

(***************************************************************************)
(* Exact rational arithmetic standing in for float arithmetic.             *)
(***************************************************************************)
Abs(x) == IF x < 0 THEN -x ELSE x

RECURSIVE GCD(_, _)
GCD(a, b) == IF b = 0 THEN a ELSE GCD(b, a % b)

LCM(a, b) == (a \div GCD(a, b)) * b

Rat(n, d) ==
    LET g == GCD(Abs(n), Abs(d))
        s == IF d < 0 THEN -1 ELSE 1
    IN  [num |-> s * (n \div g), den |-> s * (d \div g)]

RInt(i) == [num |-> i, den |-> 1]
RZero == RInt(0)
ROne == RInt(1)

\* numerator of a over the common denominator L (a.den divides L)
Over(a, L) == a.num * (L \div a.den)

RAdd(a, b) == LET L == LCM(a.den, b.den) IN Rat(Over(a, L) + Over(b, L), L)
RSub(a, b) == LET L == LCM(a.den, b.den) IN Rat(Over(a, L) - Over(b, L), L)
RLt(a, b) == LET L == LCM(a.den, b.den) IN Over(a, L) < Over(b, L)
RLe(a, b) == LET L == LCM(a.den, b.den) IN Over(a, L) <= Over(b, L)
RMul(a, b) ==
    LET g1 == GCD(Abs(a.num), b.den)
        g2 == GCD(Abs(b.num), a.den)
    IN  IF a.num = 0 \/ b.num = 0 THEN RZero
        ELSE [num |-> (a.num \div g1) * (b.num \div g2),
              den |-> (a.den \div g2) * (b.den \div g1)]
RInv(a) == Rat(a.den, a.num)
RDiv(a, b) == RMul(a, RInv(b))
RMin(a, b) == IF RLe(a, b) THEN a ELSE b
RMax(a, b) == IF RLe(a, b) THEN b ELSE a
RFloor(a) == a.num \div a.den
RCeil(a) == -((-a.num) \div a.den)

RECURSIVE RPow(_, _)
RPow(a, j) == IF j = 0 THEN ROne ELSE RMul(a, RPow(a, j - 1))

RECURSIVE RSum(_)
RSum(s) == IF s = <<>> THEN RZero ELSE RAdd(Head(s), RSum(Tail(s)))

(***************************************************************************)
(* scipy.stats.binom: pmf, cdf and sf of Binomial(n, p), n >= 1, 0 < p < 1 *)
(***************************************************************************)
RECURSIVE Choose(_, _)
Choose(n, j) ==
    IF j = 0 \/ j = n THEN 1 ELSE Choose(n - 1, j - 1) + Choose(n - 1, j)

\* stats.binom.pmf(k, n, p): zero outside the support 0..n
binom_pmf(k, n, p) ==
    IF k < 0 \/ k > n THEN RZero
    ELSE RMul(RInt(Choose(n, k)), RMul(RPow(p, k), RPow(RSub(ROne, p), n - k)))

RECURSIVE SumPmf(_, _, _, _)
SumPmf(lo, hi, n, p) ==
    IF lo > hi THEN RZero ELSE RAdd(binom_pmf(lo, n, p), SumPmf(lo + 1, hi, n, p))

\* stats.binom.cdf(k, n, p) = P(X <= k)
binom_cdf(k, n, p) == SumPmf(0, IF k > n THEN n ELSE k, n, p)
\* stats.binom.sf(k, n, p) = P(X > k)
binom_sf(k, n, p) == SumPmf(IF k < 0 THEN 0 ELSE k + 1, n, n, p)


(***************************************************************************)
(* scipy.stats.binomtest(k, n, p, alternative='two-sided'), the library    *)
(* call of binomial_p_value.  Tol is the library's relative tolerance      *)
(* rerr = 1 + 1e-7 on the comparison with d = pmf(k).                      *)
(***************************************************************************)
Tol == 10000000

\* sign of x - d * (1 + 1/Tol), for d > 0, without forming the product
CmpRerr(x, d) ==
    LET L == LCM(x.den, d.den)
        m == Over(x, L) - Over(d, L)
        q == Over(d, L) \div Tol
        r == Over(d, L) % Tol
    IN  IF m <= 0 THEN -1
        ELSE IF m < q \/ (m = q /\ r > 0) THEN -1
        ELSE IF m = q /\ r = 0 THEN 0
        ELSE 1

\* _binary_search_for_binom_tst(a, d, lo, hi) with a(x) = sgn * pmf(x) and
\* the searched value sgn * d * rerr: the index i with a(i) <= value < a(i+1)
RECURSIVE binary_search_for_binom_tst(_, _, _, _, _, _)
binary_search_for_binom_tst(sgn, d, lo, hi, n, p) ==
    IF lo < hi
    THEN LET mid == lo + (hi - lo) \div 2
             c == sgn * CmpRerr(binom_pmf(mid, n, p), d)
         IN  IF c < 0 THEN binary_search_for_binom_tst(sgn, d, mid + 1, hi, n, p)
             ELSE IF c > 0 THEN binary_search_for_binom_tst(sgn, d, lo, mid - 1, n, p)
             ELSE mid
    ELSE IF sgn * CmpRerr(binom_pmf(lo, n, p), d) <= 0 THEN lo ELSE lo - 1

\* mutant: the upper tail left out (a one-sided test)
LowerSide_one_sided(k, n, p, d, ix) == RMin(ROne, binom_cdf(k, n, p))

\* k < p*n: the lower tail up to k plus the upper tail of the terms <= d*rerr
LowerSide(k, n, p, d, ix) ==
    LET eq == IF CmpRerr(binom_pmf(ix, n, p), d) = 0 THEN 1 ELSE 0
        y == n - ix + eq
    IN  RMin(ROne, RAdd(binom_cdf(k, n, p), binom_sf(n - y, n, p)))

\* mutant: twice the upper tail instead of the sum over the small terms
UpperSide_doubled(k, n, p, ix) ==
    RMin(ROne, RMul(RInt(2), binom_sf(k - 1, n, p)))

\* k > p*n: the upper tail from k plus the lower tail of the terms <= d*rerr
UpperSide(k, n, p, ix) ==
    LET y == ix + 1
    IN  RMin(ROne, RAdd(binom_cdf(y - 1, n, p), binom_sf(k - 1, n, p)))

TwoSided(k, n, p, d, pn) ==
    IF RInt(k) = pn THEN ROne
    ELSE IF RLt(RInt(k), pn)
    THEN LowerSide(k, n, p, d, binary_search_for_binom_tst(-1, d, RCeil(pn), n, n, p))
    ELSE UpperSide(k, n, p, binary_search_for_binom_tst(1, d, 0, RFloor(pn), n, p))

\* the two-sided p-value, for 0 <= k <= n, n >= 1, 0 <= p <= 1
TwoSidedPValue(k, n, p) == TwoSided(k, n, p, binom_pmf(k, n, p), RMul(p, RInt(n)))

\* argument validation of binomtest, then the p-value
binomtest(k, n, p) ==
    IF k < 0 THEN Raise("ValueError")
    ELSE IF n < 1 THEN Raise("ValueError")
    ELSE IF k > n THEN Raise("ValueError")
    ELSE IF ~(RLe(RZero, p) /\ RLe(p, ROne)) THEN Raise("ValueError")
    ELSE Return(TwoSidedPValue(k, n, p))

(***************************************************************************)
(* src/statistics_utils.py                                                 *)
(***************************************************************************)
binomial_p_value(n, k, p) ==
    IF n <= 0 \/ RLe(p, RZero) \/ RLe(ROne, p) THEN Return(ROne)
    ELSE binomtest(k, n, p)

\* mutant: the guard p >= 1 forgotten
calculate_likelihood_no_upper_guard(n, k, p) ==
    IF n <= 0 \/ RLe(p, RZero) THEN RZero
    ELSE binom_pmf(k, n, p)

calculate_likelihood(n, k, p) ==
    IF n <= 0 \/ RLe(p, RZero) \/ RLe(ROne, p) THEN RZero
    ELSE binom_pmf(k, n, p)

\* mutant: the likelihoods returned without the division by their total
calculate_relative_likelihood_unnormalised(n, k, probs) ==
    LET likelihoods == [i \in 1..Len(probs) |-> calculate_likelihood(n, k, probs[i])]
        total == RSum(likelihoods)
    IN  IF total = RZero
        THEN IF Len(probs) = 0 THEN Raise("ZeroDivisionError")
             ELSE Return([i \in 1..Len(probs) |-> RDiv(ROne, RInt(Len(probs)))])
        ELSE Return(likelihoods)

calculate_relative_likelihood(n, k, probs) ==
    LET likelihoods == [i \in 1..Len(probs) |-> calculate_likelihood(n, k, probs[i])]
        total == RSum(likelihoods)
    IN  IF total = RZero
        THEN IF Len(probs) = 0 THEN Raise("ZeroDivisionError")
             ELSE Return([i \in 1..Len(probs) |-> RDiv(ROne, RInt(Len(probs)))])
        ELSE Return([i \in 1..Len(probs) |-> RDiv(likelihoods[i], total)])

(***************************************************************************)
(* Inputs of the core calls.                                               *)
(***************************************************************************)
Probs(den) == {Rat(a, den) : a \in -1..(den + 1)}

RECURSIVE ListsUpTo(_, _)
ListsUpTo(S, len) ==
    IF len = 0 THEN {<<>>}
    ELSE LET shorter == ListsUpTo(S, len - 1)
         IN  shorter \cup {Append(s, x) : s \in {t \in shorter : Len(t) = len - 1}, x \in S}

\* A core call is placed with its arguments (pc = "call"), then runs (pc = "done").
NoCall == [fn |-> "none", pc |-> "done"]
Pending == Raise("pending")

ShellVars == <<counts, total_spins, probabilities, analysis_results, shell>>

(***************************************************************************)
(* Calls of binomial_p_value.                                              *)
(***************************************************************************)
PValueCalls ==
    {[fn |-> "binomial_p_value", pc |-> "call", n |-> n, k |-> k, p |-> p,
      result |-> Pending] :
        n \in -1..MaxN, k \in -1..(MaxN + 1), p \in Probs(ProbDen)}

RunPValue ==
    /\ call.fn = "binomial_p_value" /\ call.pc = "call"
    /\ call' = [call EXCEPT !.pc = "done",
                            !.result = binomial_p_value(call.n, call.k, call.p)]
    /\ UNCHANGED ShellVars

(***************************************************************************)
(* Calls of calculate_relative_likelihood.                                 *)
(***************************************************************************)
LikelihoodCalls ==
    {[fn |-> "calculate_relative_likelihood", pc |-> "call", n |-> n, k |-> k,
      probabilities |-> probs, result |-> Pending] :
        n \in -1..LikMaxN, k \in -1..(LikMaxN + 1),
        probs \in ListsUpTo(Probs(LikDen), MaxLen)}

RunLikelihood ==
    /\ call.fn = "calculate_relative_likelihood" /\ call.pc = "call"
    /\ call' = [call EXCEPT !.pc = "done",
                            !.result = calculate_relative_likelihood(
                                           call.n, call.k, call.probabilities)]
    /\ UNCHANGED ShellVars


(***************************************************************************)
(* Text: Python's str.strip, float() and int() on sequences of characters. *)
(* The character "x" stands for any character that is no part of a number. *)
(***************************************************************************)
DigitChars == {"0", "1", "2", "3", "4", "5", "6", "7", "8", "9"}

DigitVal(c) ==
    CASE c = "0" -> 0 [] c = "1" -> 1 [] c = "2" -> 2 [] c = "3" -> 3
      [] c = "4" -> 4 [] c = "5" -> 5 [] c = "6" -> 6 [] c = "7" -> 7
      [] c = "8" -> 8 [] c = "9" -> 9

RECURSIVE Pow10(_)
Pow10(e) == IF e = 0 THEN 1 ELSE 10 * Pow10(e - 1)

\* value of a sequence of digits (0 for the empty one)
RECURSIVE DigitsVal(_)
DigitsVal(s) ==
    IF Len(s) = 0 THEN 0
    ELSE 10 * DigitsVal(SubSeq(s, 1, Len(s) - 1)) + DigitVal(s[Len(s)])

AllDigits(s) == \A i \in 1..Len(s) : s[i] \in DigitChars

\* str.strip(): leading and trailing blanks removed
RECURSIVE Strip(_)
Strip(s) ==
    IF Len(s) = 0 THEN s
    ELSE IF s[1] = " " THEN Strip(Tail(s))
    ELSE IF s[Len(s)] = " " THEN Strip(SubSeq(s, 1, Len(s) - 1))
    ELSE s

Positions(s, c) == {i \in 1..Len(s) : s[i] = c}

\* float(text): [blanks] [sign] digits [. digits] [blanks], at least one digit
py_float(text) ==
    LET t == Strip(text)
        signed == Len(t) > 0 /\ t[1] \in {"-", "+"}
        body == IF signed THEN Tail(t) ELSE t
        dots == Positions(body, ".")
        dot == IF dots = {} THEN Len(body) + 1 ELSE CHOOSE i \in dots : TRUE
        ip == SubSeq(body, 1, dot - 1)
        fp == SubSeq(body, dot + 1, Len(body))
        mag == Rat(DigitsVal(ip \o fp), Pow10(Len(fp)))
    IN  IF Cardinality(dots) <= 1 /\ AllDigits(ip) /\ AllDigits(fp)
           /\ Len(ip) + Len(fp) > 0
        THEN Return(IF signed /\ t[1] = "-" THEN RSub(RZero, mag) ELSE mag)
        ELSE Raise("ValueError")

\* int(text): [blanks] [sign] digits [blanks]
py_int(text) ==
    LET t == Strip(text)
        signed == Len(t) > 0 /\ t[1] \in {"-", "+"}
        body == IF signed THEN Tail(t) ELSE t
    IN  IF Len(body) > 0 /\ AllDigits(body)
        THEN Return(IF signed /\ t[1] = "-" THEN -DigitsVal(body) ELSE DigitsVal(body))
        ELSE Raise("ValueError")


(***************************************************************************)
(* evaluate_setting(p_value, significance): the verdict (symbol, text).    *)
(***************************************************************************)
StrongSupportBound == Rat(25, 100)       \* the literal 0.25
DefaultSignificance == Rat(5, 100)       \* the default significance 0.05

\* mutant: the strong rejection tested against significance, not half of it
evaluate_setting_no_half(p_value, significance) ==
    IF RLt(p_value, significance) THEN <<"x", "hiteiteki">>
    ELSE IF RLt(p_value, StrongSupportBound) THEN <<"circle", "kanousei ari">>
    ELSE <<"double_circle", "takai kanousei">>

\* mutant: the boundaries compared with <= instead of <
evaluate_setting_inclusive(p_value, significance) ==
    IF RLe(p_value, RDiv(significance, RInt(2))) THEN <<"x", "hiteiteki">>
    ELSE IF RLe(p_value, significance) THEN <<"triangle", "yaya hiteiteki">>
    ELSE IF RLe(p_value, StrongSupportBound) THEN <<"circle", "kanousei ari">>
    ELSE <<"double_circle", "takai kanousei">>

evaluate_setting(p_value, significance) ==
    IF RLt(p_value, RDiv(significance, RInt(2))) THEN <<"x", "hiteiteki">>
    ELSE IF RLt(p_value, significance) THEN <<"triangle", "yaya hiteiteki">>
    ELSE IF RLt(p_value, StrongSupportBound) THEN <<"circle", "kanousei ari">>
    ELSE <<"double_circle", "takai kanousei">>

(***************************************************************************)
(* src/app.py: the session state and its handlers.                         *)
(***************************************************************************)
Colors == {"yellow", "red", "green", "blue"}
NumSettings == 6
Settings == 1..NumSettings

\* The four colours are handled alike and independently: the modelled user
\* works the widgets of the colours in Operated and edits the denominator
\* of the settings in Edited; everything else keeps its initial value.
Operated == {"yellow"}
Edited == {NumSettings}

MaxCount == 2      \* increment_count is explored up to this count
MaxSpins == 2      \* run_analysis is explored up to this total_spins

\* Denominator texts the user types: 1/2, 1/1, 1/0.5, 0, negative, no number.
ProbTexts ==
    {<<"2">>, <<"1">>, <<"0", ".", "5">>, <<"0">>, <<"-", "2">>, <<"x">>}

\* lines 190-197: the denominators of a table at construction, 7.0 ... 5.5
default_probs ==
    <<(<<"7", ".", "0">>), (<<"6", ".", "8">>), (<<"6", ".", "5">>),
      (<<"6", ".", "2">>), (<<"5", ".", "8">>), (<<"5", ".", "5">>)>>

\* The exploration starts after the user has typed short denominators into
\* the tables of the operated colours (the exact binomial arithmetic on the
\* default denominators does not fit the integers of the model checker).
StartTable == [s \in Settings |-> IF s <= 3 THEN <<"4">> ELSE <<"2">>]

RECURSIVE NatText(_)
NatText(i) ==
    LET d == CHOOSE c \in DigitChars : DigitVal(c) = i % 10
    IN  IF i < 10 THEN <<d>> ELSE Append(NatText(i \div 10), d)

IntText(i) == IF i < 0 THEN <<"-">> \o NatText(-i) ELSE NatText(i)

\* texts typed into the total-spins field
SpinInputs ==
    {IntText(i) : i \in -1..MaxSpins} \cup {<<>>, <<"1", ".", "5">>, <<"x">>}

None == [none |-> TRUE]

ShellInit ==
    /\ counts = [c \in Colors |-> 0]
    /\ total_spins = 1000
    /\ probabilities = [c \in Colors |-> IF c \in Operated THEN StartTable
                                         ELSE default_probs]
    /\ analysis_results = [c \in Colors |-> None]
    /\ shell = "ok"

increment_count(color) ==
    /\ counts[color] < MaxCount
    /\ counts' = [counts EXCEPT ![color] = @ + 1]
    /\ shell' = "ok"
    /\ UNCHANGED <<total_spins, probabilities, analysis_results, call>>

decrement_count(color) ==
    /\ counts' = IF counts[color] > 0 THEN [counts EXCEPT ![color] = @ - 1]
                 ELSE counts
    /\ shell' = "ok"
    /\ UNCHANGED <<total_spins, probabilities, analysis_results, call>>

reset_all_counts ==
    /\ counts' = [c \in DOMAIN counts |-> 0]
    /\ shell' = "ok"
    /\ UNCHANGED <<total_spins, probabilities, analysis_results, call>>

\* main(): the total-spins text field
EditTotalSpins(spin_input) ==
    /\ total_spins' =
          IF Len(spin_input) = 0 THEN 1000
          ELSE IF py_int(spin_input).ok THEN py_int(spin_input).val
          ELSE total_spins
    /\ shell' = "ok"
    /\ UNCHANGED <<counts, probabilities, analysis_results, call>>

\* main(): a denominator text field
EditProbability(color, setting, text) ==
    /\ probabilities' = [probabilities EXCEPT ![color][setting] = text]
    /\ shell' = "ok"
    /\ UNCHANGED <<counts, total_spins, analysis_results, call>>

\* run_analysis, lines 232-239: the probability of a denominator text
ParseDenominator(prob_str) ==
    LET denominator == py_float(prob_str)
    IN  IF denominator.ok /\ RLt(RZero, denominator.val)
        THEN RDiv(ROne, denominator.val)
        ELSE RZero

ParsedProbs(probs) == [s \in Settings |-> ParseDenominator(probs[s])]

\* run_analysis, lines 258-265: one entry of results
ResultEntry(setting, p, p_value, verdict, likelihood_pct) ==
    [setting |-> setting, probability |-> p, p_value |-> p_value,
     symbol |-> verdict[1], eval_text |-> verdict[2], likelihood |-> likelihood_pct]

\* run_analysis, lines 249-251: a candidate with p > 0, given the outcome pv
\* of binomial_p_value
Scored(setting, p, pv, likelihood, significance) ==
    IF pv.ok
    THEN Return(ResultEntry(setting, p, pv.val, evaluate_setting(pv.val, significance),
                            RMul(likelihood, RInt(100))))
    ELSE pv

\* run_analysis, lines 247-265: the result of one candidate
SettingResult(setting, p, n, count, likelihood, significance) ==
    IF RLt(RZero, p)
    THEN Scored(setting, p, binomial_p_value(n, count, p), likelihood, significance)
    ELSE Return(ResultEntry(setting, p, RZero, <<"?", "kakuritsu misettei">>, RZero))

\* run_analysis, lines 246-274: the first exception of the loop, or the
\* snapshot with the results sorted from setting 6 down to setting 1
Snapshot(parsed_probs, res, count, n) ==
    IF \E s \in Settings : ~res[s].ok
    THEN res[CHOOSE s \in Settings : ~res[s].ok /\ \A t \in 1..(s - 1) : res[t].ok]
    ELSE Return([results |-> [i \in 1..NumSettings |-> res[NumSettings + 1 - i].val],
                 parsed_probs |-> parsed_probs,
                 count |-> count,
                 total_spins |-> n])

\* run_analysis, lines 243-274, given the outcome of calculate_relative_likelihood
Analysis(parsed_probs, relative_likelihoods, count, n, significance) ==
    IF ~relative_likelihoods.ok THEN relative_likelihoods
    ELSE Snapshot(parsed_probs,
                  [s \in Settings |->
                      SettingResult(s, parsed_probs[s], n, count,
                                    relative_likelihoods.val[s], significance)],
                  count, n)

\* run_analysis, line 269: the snapshot is stored unless an exception ended the run
StoreAnalysis(color, out) ==
    /\ analysis_results' = IF out.ok THEN [analysis_results EXCEPT ![color] = out.val]
                           ELSE analysis_results
    /\ shell' = IF out.ok THEN "ok" ELSE out.err

\* run_analysis, line 243 on: the engine is called with (n, count, prob_list)
AnalyseWith(color, n, count, parsed_probs, relative_likelihoods) ==
    /\ call' = [fn |-> "calculate_relative_likelihood", pc |-> "done",
                n |-> n, k |-> count, probabilities |-> parsed_probs,
                result |-> relative_likelihoods]
    /\ StoreAnalysis(color, Analysis(parsed_probs, relative_likelihoods, count, n,
                                     DefaultSignificance))

AnalyseParsed(color, n, count, parsed_probs) ==
    AnalyseWith(color, n, count, parsed_probs,
                calculate_relative_likelihood(n, count, parsed_probs))

run_analysis(color) ==
    /\ total_spins <= MaxSpins
    /\ AnalyseParsed(color, total_spins, counts[color], ParsedProbs(probabilities[color]))
    /\ UNCHANGED <<counts, total_spins, probabilities>>

Init == ShellInit /\ call = NoCall

Next ==
    \/ \E color \in Operated : increment_count(color)
    \/ \E color \in Operated : decrement_count(color)
    \/ reset_all_counts
    \/ \E spin_input \in SpinInputs : EditTotalSpins(spin_input)
    \/ \E color \in Operated, setting \in Edited, text \in ProbTexts :
          EditProbability(color, setting, text)
    \/ \E color \in Operated : run_analysis(color)

Spec == Init /\ [][Next]_vars

(***************************************************************************)
(* parse_probability_input(input_str)                                      *)
(***************************************************************************)
\* line 192: float(input_str[:-1]) / 100
Percent(value) == IF value.ok THEN Return(RDiv(value.val, RInt(100))) ELSE value

\* lines 204-208: the plain decimal, a value above 1 taken as a denominator
Decimal(value) ==
    IF ~value.ok THEN value
    ELSE IF RLt(ROne, value.val) THEN Return(RDiv(ROne, value.val))
    ELSE value

\* lines 196-201, then 204: the two parts of "a/b"
Fraction(numerator, denominator, whole) ==
    IF ~numerator.ok THEN numerator
    ELSE IF ~denominator.ok THEN denominator
    ELSE IF denominator.val # RZero THEN Return(RDiv(numerator.val, denominator.val))
    ELSE Decimal(whole)

Parse(s, slashes) ==
    IF Len(s) > 0 /\ s[Len(s)] = "%" THEN Percent(py_float(SubSeq(s, 1, Len(s) - 1)))
    ELSE IF Cardinality(slashes) = 1
    THEN Fraction(py_float(SubSeq(s, 1, (CHOOSE i \in slashes : TRUE) - 1)),
                  py_float(SubSeq(s, (CHOOSE i \in slashes : TRUE) + 1, Len(s))),
                  py_float(s))
    ELSE Decimal(py_float(s))

ParseStripped(s) == Parse(s, Positions(s, "/"))

parse_probability_input(input_str) == ParseStripped(Strip(input_str))

(***************************************************************************)
(* get_confidence_interval, get_expected_count_range and                   *)
(* generate_probability_curve_data.  Square roots are rounded down to      *)
(* 1/SqrtScale, and stats.norm.ppf(0.975) = 1.959964 is taken as 1.96.     *)
(***************************************************************************)
SqrtScale == 100

RECURSIVE ISqrtIn(_, _, _)
ISqrtIn(x, lo, hi) ==
    IF lo >= hi THEN lo
    ELSE LET mid == (lo + hi + 1) \div 2
         IN  IF mid * mid <= x THEN ISqrtIn(x, mid, hi) ELSE ISqrtIn(x, lo, mid - 1)

\* np.sqrt(a) for a rational a >= 0
np_sqrt(a) ==
    Rat(ISqrtIn(a.num * a.den * SqrtScale * SqrtScale, 0, 40000), a.den * SqrtScale)

\* stats.norm.ppf(q), at the one point the program uses
norm_ppf(q) == CASE q = Rat(975, 1000) -> Rat(196, 100)

ClampInterval(p, half) ==
    <<RMax(RZero, RSub(p, half)), RMin(ROne, RAdd(p, half))>>

get_confidence_interval(p, n, confidence) ==
    IF n <= 0 THEN <<RZero, ROne>>
    ELSE ClampInterval(p,
             RMul(norm_ppf(RDiv(RAdd(ROne, confidence), RInt(2))),
                  np_sqrt(RDiv(RMul(p, RSub(ROne, p)), RInt(n)))))

ScaleInterval(ci, n) == <<RMul(ci[1], RInt(n)), RMul(ci[2], RInt(n))>>

get_expected_count_range(p, n, confidence) ==
    ScaleInterval(get_confidence_interval(p, n, confidence), n)

\* list(range(start, stop, step)) for step > 0
RECURSIVE PyRange(_, _, _)
PyRange(start, stop, step) ==
    IF start >= stop THEN <<>> ELSE <<start>> \o PyRange(start + step, stop, step)

InSeq(x, s) == \E i \in 1..Len(s) : s[i] = x

\* mutant: max_n appended without the membership test
NValues_always_append(multiples, max_n) == Append(multiples, max_n)

\* lines 129-131
NValues(multiples, max_n) ==
    IF InSeq(max_n, multiples) THEN multiples ELSE Append(multiples, max_n)

\* lines 138-152: the curves of one candidate
Curve(p, n_values) ==
    [expected |-> [i \in 1..Len(n_values) |-> RMul(p, RInt(n_values[i]))],
     lower |-> [i \in 1..Len(n_values) |->
                   get_expected_count_range(p, n_values[i], Rat(95, 100))[1]],
     upper |-> [i \in 1..Len(n_values) |->
                   get_expected_count_range(p, n_values[i], Rat(95, 100))[2]]]

CurveData(probs, n_values) ==
    [n_values |-> n_values,
     curves |-> [name \in DOMAIN probs |-> Curve(probs[name], n_values)]]

\* range() raises on a zero step; steps below zero are not modelled
generate_probability_curve_data(probs, max_n, step) ==
    IF step = 0 THEN Raise("ValueError")
    ELSE Return(CurveData(probs, NValues(PyRange(step, max_n + 1, step), max_n)))

(***************************************************************************)
(* Calls of evaluate_setting, parse_probability_input and                  *)
(* generate_probability_curve_data.                                        *)
(***************************************************************************)
MaxText == 4       \* longest input text of parse_probability_input
MaxCurveN == 7     \* max_n ranges over 0..MaxCurveN
MaxStep == 4       \* step ranges over 0..MaxStep

\* p-values and significances in thousandths
PValues == {Rat(a, 1000) : a \in {0, 10, 24, 25, 26, 30, 49, 50, 51, 100, 125, 126,
                                  200, 249, 250, 251, 300, 500, 999, 1000}}
Significances == {Rat(a, 1000) : a \in {0, 10, 50, 100, 250, 500, 600}}

VerdictCalls ==
    {[fn |-> "evaluate_setting", pc |-> "call", p_value |-> pv, significance |-> sg,
      result |-> Pending] : pv \in PValues, sg \in Significances}

RunVerdict ==
    /\ call.fn = "evaluate_setting" /\ call.pc = "call"
    /\ call' = [call EXCEPT !.pc = "done",
                            !.result = Return(evaluate_setting(call.p_value,
                                                               call.significance))]
    /\ UNCHANGED ShellVars

TextChars == {"1", "2", "0", ".", "/", "%", "-", " "}

ParseCalls ==
    {[fn |-> "parse_probability_input", pc |-> "call", input_str |-> t,
      result |-> Pending] : t \in ListsUpTo(TextChars, MaxText)}

RunParse ==
    /\ call.fn = "parse_probability_input" /\ call.pc = "call"
    /\ call' = [call EXCEPT !.pc = "done",
                            !.result = parse_probability_input(call.input_str)]
    /\ UNCHANGED ShellVars

CurveNames == {"setting1", "setting2"}
CurveProbs == {RZero, Rat(1, 4), Rat(1, 2), ROne}
CurveDicts == UNION {[names -> CurveProbs] : names \in SUBSET CurveNames}

CurveCalls ==
    {[fn |-> "generate_probability_curve_data", pc |-> "call", probabilities |-> d,
      max_n |-> m, step |-> st, result |-> Pending] :
        d \in CurveDicts, m \in 0..MaxCurveN, st \in 0..MaxStep}

RunCurve ==
    /\ call.fn = "generate_probability_curve_data" /\ call.pc = "call"
    /\ call' = [call EXCEPT !.pc = "done",
                            !.result = generate_probability_curve_data(
                                           call.probabilities, call.max_n, call.step)]
    /\ UNCHANGED ShellVars

InitPValue == ShellInit /\ call \in PValueCalls

SpecPValue == InitPValue /\ [][RunPValue]_vars

InitLikelihood == ShellInit /\ call \in LikelihoodCalls

SpecLikelihood == InitLikelihood /\ [][RunLikelihood]_vars

InitVerdict == ShellInit /\ call \in VerdictCalls

SpecVerdict == InitVerdict /\ [][RunVerdict]_vars

InitParse == ShellInit /\ call \in ParseCalls

SpecParse == InitParse /\ [][RunParse]_vars

InitCurve == ShellInit /\ call \in CurveCalls

SpecCurve == InitCurve /\ [][RunCurve]_vars

(***************************************************************************)
(* Claims.                                                                 *)
(***************************************************************************)
InUnit(p) == RLt(RZero, p) /\ RLt(p, ROne)

Done(fn) == call.fn = fn /\ call.pc = "done"

RawLikelihood(n, k, p) ==
    IF n <= 0 \/ RLe(p, RZero) \/ RLe(ROne, p) THEN RZero ELSE binom_pmf(k, n, p)

RawLikelihoods(n, k, probs) == [i \in 1..Len(probs) |-> RawLikelihood(n, k, probs[i])]

ValidPValueCall ==
    /\ Done("binomial_p_value")
    /\ call.n >= 1 /\ 0 <= call.k /\ call.k <= call.n /\ InUnit(call.p)

\* the sum of the PMF over the outcomes j in 0..n no likelier than k
ExactTwoSided(n, k, p) ==
    RSum([i \in 1..(n + 1) |->
            IF RLe(binom_pmf(i - 1, n, p), binom_pmf(k, n, p))
            THEN binom_pmf(i - 1, n, p) ELSE RZero])

\* C2: for n >= 1, 0 <= k <= n and 0 < p < 1, binomial_p_value returns the
\* sum of the PMF over exactly the outcomes whose PMF is <= the PMF at k,
\* a value in [0,1].
C2_ExactTwoSidedSum ==
    ValidPValueCall =>
        /\ call.result.ok
        /\ call.result.val = ExactTwoSided(call.n, call.k, call.p)
        /\ RLe(RZero, call.result.val) /\ RLe(call.result.val, ROne)

\* a skewed p where the exact sum is below 1 and is not twice the smaller tail
C2_Witness ==
    /\ ValidPValueCall /\ call.result.ok
    /\ call.p # Rat(1, 2)
    /\ RLt(call.result.val, ROne)
    /\ call.result.val #
          RMul(RInt(2), RMin(binom_cdf(call.k, call.n, call.p),
                             binom_sf(call.k - 1, call.n, call.p)))
    /\ RLt(RMul(RInt(2), RMin(binom_cdf(call.k, call.n, call.p),
                              binom_sf(call.k - 1, call.n, call.p))), ROne)

\* C3 (as claimed): binomial_p_value never raises, and returns 1.0 whenever
\* n <= 0 or p <= 0 or p >= 1.
C3_NeverRaises ==
    Done("binomial_p_value") =>
        /\ call.result.ok
        /\ (call.n <= 0 \/ RLe(call.p, RZero) \/ RLe(ROne, call.p))
              => call.result.val = ROne

IsMode(j, n, p) == \A i \in 0..n : RLe(binom_pmf(i, n, p), binom_pmf(j, n, p))

PValueAt(n, k, p) == binomial_p_value(n, k, p).val

\* C7: for n >= 1 and 0 < p < 1 the p-value is 1 at a mode of Binomial(n, p)
\* and does not increase as k moves away from the mode within one tail.
C7_ModeAndMonotone ==
    ValidPValueCall =>
        /\ call.result.ok
        /\ IsMode(call.k, call.n, call.p) => call.result.val = ROne
        /\ \A k2 \in (call.k + 1)..call.n :
              /\ (\E m \in k2..call.n : IsMode(m, call.n, call.p))
                    => RLe(call.result.val, PValueAt(call.n, k2, call.p))
              /\ (\E m \in 0..call.k : IsMode(m, call.n, call.p))
                    => RLe(PValueAt(call.n, k2, call.p), call.result.val)

\* below the mode, with a strictly larger p-value one step nearer to it
C7_Witness ==
    /\ ValidPValueCall /\ call.result.ok
    /\ call.k + 2 <= call.n
    /\ IsMode(call.k + 2, call.n, call.p)
    /\ RLt(call.result.val, PValueAt(call.n, call.k + 1, call.p))
    /\ RLt(PValueAt(call.n, call.k + 1, call.p), ROne)

\* the verdict the four rules of C5 give; "none" or "several" when they do
\* not single one out
RuleVerdicts(pv, sg) ==
    (IF RLt(pv, RDiv(sg, RInt(2))) THEN {"x"} ELSE {})
    \cup (IF RLe(RDiv(sg, RInt(2)), pv) /\ RLt(pv, sg) THEN {"triangle"} ELSE {})
    \cup (IF RLe(sg, pv) /\ RLt(pv, Rat(25, 100)) THEN {"circle"} ELSE {})
    \cup (IF RLe(Rat(25, 100), pv) THEN {"double_circle"} ELSE {})

\* C5 (as claimed): for every p_value and every significance the verdict is
\* the one the four rules give.
C5_Original ==
    Done("evaluate_setting") =>
        RuleVerdicts(call.p_value, call.significance) = {call.result.val[1]}

\* C5 (amended): for every p_value and every significance in [0, 0.25] the
\* verdict is the one the four rules give.
C5_VerdictByRules ==
    (/\ Done("evaluate_setting")
     /\ RLe(RZero, call.significance) /\ RLe(call.significance, Rat(25, 100))) =>
        RuleVerdicts(call.p_value, call.significance) = {call.result.val[1]}

\* a p-value on the boundary significance/2, at a significance other than 0.05
C5_Witness ==
    /\ Done("evaluate_setting")
    /\ call.significance = Rat(1, 4)
    /\ call.p_value = Rat(1, 8)
    /\ call.result.val = <<"triangle", "yaya hiteiteki">>

AtDefault(pv) ==
    /\ Done("evaluate_setting")
    /\ call.significance = Rat(5, 100)
    /\ call.p_value = pv

\* C6 (as claimed): at significance 0.05, p_value 0.024 and 0.03 are
\* weakly-reject, 0.05 is weakly-support and 0.3 is strongly-support.
C6_Original ==
    /\ AtDefault(Rat(24, 1000)) => call.result.val[1] = "triangle"
    /\ AtDefault(Rat(30, 1000)) => call.result.val[1] = "triangle"
    /\ AtDefault(Rat(50, 1000)) => call.result.val[1] = "circle"
    /\ AtDefault(Rat(300, 1000)) => call.result.val[1] = "double_circle"

\* C6 (amended): at significance 0.05, p_value 0.024 is strongly-reject, 0.03
\* is weakly-reject, 0.05 is weakly-support and 0.3 is strongly-support.
C6_BoundaryExamples ==
    /\ AtDefault(Rat(24, 1000)) => call.result.val[1] = "x"
    /\ AtDefault(Rat(30, 1000)) => call.result.val[1] = "triangle"
    /\ AtDefault(Rat(50, 1000)) => call.result.val[1] = "circle"
    /\ AtDefault(Rat(300, 1000)) => call.result.val[1] = "double_circle"

C6_Witness == AtDefault(Rat(24, 1000)) /\ call.result.val = <<"x", "hiteiteki">>

\* C8 (as claimed): every probability parse_probability_input returns lies
\* in [0,1].
C8_InUnitInterval ==
    (Done("parse_probability_input") /\ call.result.ok) =>
        RLe(RZero, call.result.val) /\ RLe(call.result.val, ROne)

\* the multiples of step up to max_n, then max_n unless it is one of them
ExpectedNValues(max_n, step) ==
    LET multiples == [i \in 1..(max_n \div step) |-> i * step]
    IN  IF max_n % step = 0 THEN multiples ELSE Append(multiples, max_n)

\* C10: for step >= 1 and max_n >= 1, n_values is the increasing sequence of
\* the multiples of step up to max_n, followed by max_n exactly when max_n is
\* no multiple of step, and the expected, lower and upper lists of every
\* candidate are as long as n_values.
C10_CurvePoints ==
    (Done("generate_probability_curve_data") /\ call.step >= 1 /\ call.max_n >= 1) =>
        /\ call.result.ok
        /\ call.result.val.n_values = ExpectedNValues(call.max_n, call.step)
        /\ \A i \in 1..(Len(call.result.val.n_values) - 1) :
              call.result.val.n_values[i] < call.result.val.n_values[i + 1]
        /\ call.result.val.n_values[Len(call.result.val.n_values)] = call.max_n
        /\ DOMAIN call.result.val.curves = DOMAIN call.probabilities
        /\ \A name \in DOMAIN call.probabilities :
              /\ Len(call.result.val.curves[name].expected)
                    = Len(call.result.val.n_values)
              /\ Len(call.result.val.curves[name].lower) = Len(call.result.val.n_values)
              /\ Len(call.result.val.curves[name].upper) = Len(call.result.val.n_values)

\* two candidates, several multiples of step, and max_n appended after them
C10_Witness ==
    /\ Done("generate_probability_curve_data") /\ call.result.ok
    /\ DOMAIN call.probabilities = CurveNames
    /\ call.step >= 2 /\ call.max_n % call.step # 0
    /\ Len(call.result.val.n_values) >= 3

\* C4 (as claimed): a candidate whose probability is not strictly in (0,1)
\* carries p_value 0, likelihood 0 and the unset verdict in the stored results.
C4_UnsetSentinel ==
    \A color \in Colors :
        analysis_results[color] # None =>
            \A i \in 1..NumSettings :
                ~InUnit(analysis_results[color].results[i].probability) =>
                    /\ analysis_results[color].results[i].p_value = RZero
                    /\ analysis_results[color].results[i].likelihood = RZero
                    /\ analysis_results[color].results[i].symbol = "?"
                    /\ analysis_results[color].results[i].eval_text = "kakuritsu misettei"

\* C11 (as claimed): every invocation of run_analysis passes the inference
\* engine a trial pair (n, k) = (total_spins, counts[colour]) with
\* 0 <= k <= n.
C11_TrialPairInRange ==
    Done("calculate_relative_likelihood") => (0 <= call.k /\ call.k <= call.n)

=============================================================================
